---- MODULE Spec2Model ----
(***************************************************************************)
(* A model of the JSON-RPC 2.0 dispatcher of go-jsonrpc2 (server.go and    *)
(* the error taxonomy).  One behaviour is: configuration of a fresh server *)
(* (SetDefaultTimeout, DefineMethod), then one ServeRequest call, followed *)
(* step by step through serveSingleRequest, the goroutines of              *)
(* serveBatchRequest and the handler/timer race of handleAsync.            *)
(*                                                                         *)
(* JSON texts are modelled by their decoded structure: a payload is either *)
(* an array of items or one item, and an item says what encoding/json      *)
(* makes of it (kind) and, for an object, the four fields of request.      *)
(* Raw JSON values and Go interface values are strings; NilRaw is Go's nil *)
(* (a nil json.RawMessage, a nil interface{}), which differs from the JSON *)
(* text "null".                                                            *)
(***************************************************************************)
EXTENDS Integers, Sequences, FiniteSets, TLC

\* ------------------------------------------------------------------ bounds

\* Longest batch array ServeRequest is given.
MaxBatch == 2

\* ------------------------------------------------------------- Go values

NilRaw == "<nil>"

\* A handler result json.Marshal rejects (math.NaN(), a chan, a func).
Unencodable == "<NaN>"

\* error values: kind "nil" is the nil error, "rpc" an error that implements
\* jsonrpc2.Error (it has Code()), "plain" any other error.
NilError == [kind |-> "nil", code |-> 0, message |-> ""]

ErrParseError == [kind |-> "rpc", code |-> -32700, message |-> "Parse error"]

ErrInvalidRequest == [kind |-> "rpc", code |-> -32600, message |-> "Invalid request"]

ErrMethodNotFound == [kind |-> "rpc", code |-> -32601, message |-> "Method not found"]

ErrInvalidParams == [kind |-> "rpc", code |-> -32602, message |-> "Invalid Params"]

\* context.DeadlineExceeded: an error without Code().
DeadlineExceeded == [kind |-> "plain", code |-> 0, message |-> "context deadline exceeded"]

NewError(code, msg) == [kind |-> "rpc", code |-> code, message |-> msg]

NewInternalError(msg) == NewError(-32000, msg)

\* request{}: the zero value of the request struct.
ZeroRequest == [ID |-> NilRaw, Version |-> "", Method |-> "", Params |-> NilRaw]

\* ---------------------------------------------------------------- payloads

\* What a JSON text is to encoding/json:
\*   "garbage"  not JSON at all (only possible for a whole payload),
\*   "null"     the literal null,
\*   "scalar"   a JSON value that is neither an object, an array nor null,
\*   "array"    the empty array [] as an element of a batch (as a whole
\*              payload it is the array payload without elements),
\*   "badobj"   an object with a field of the wrong type ("method": 1),
\*   "obj"      an object whose known fields have the right types.
\* In an "obj" a field equal to NilRaw is a key the object does not have.
Item(kind, id, version, method, params) ==
    [kind |-> kind, id |-> id, jsonrpc |-> version, method |-> method, params |-> params]

NoFields(kind) == Item(kind, NilRaw, "", "", NilRaw)

\* The ids a call can carry: absent, the literal null, two numbers.
Ids == {NilRaw, "null", "1", "2"}

Versions == {"2.0", "1.0"}

Methods == {"", "echo", "missing"}

\* params select what the registered handler does (as the tests' "wait"
\* handler sleeps for params milliseconds): see run.
ParamsSet == {"ok", "nil", "both", "err", "rpcerr", "nan", "hang"}

Objects == {Item("obj", i, v, m, p) : i \in Ids, v \in Versions, m \in Methods, p \in ParamsSet}

SingleItems == Objects \cup {NoFields(k) : k \in {"garbage", "null", "scalar", "badobj"}}

\* The elements batches are built from.
BatchItems ==
    { NoFields("scalar"),
      NoFields("array"),
      Item("obj", "1", "1.0", "echo", "ok"),
      Item("obj", NilRaw, "2.0", "echo", "err"),
      Item("obj", "1", "2.0", "echo", "ok"),
      Item("obj", "2", "2.0", "echo", "hang"),
      Item("obj", "2", "2.0", "echo", "nan") }

SeqsUpTo(S, n) == UNION {[1..k -> S] : k \in 0..n}

Payloads ==
    {[isArray |-> FALSE, item |-> it, elems |-> <<>>] : it \in SingleItems}
    \cup {[isArray |-> TRUE, item |-> NoFields("scalar"), elems |-> es] :
             es \in SeqsUpTo(BatchItems, MaxBatch)}

\* json.Unmarshal(jsonString, &arr) with arr []json.RawMessage: an array gives
\* its elements, null leaves arr nil without an error, anything else fails.
UnmarshalArray(p) ==
    IF p.isArray THEN [ok |-> TRUE, arr |-> p.elems]
    ELSE IF p.item.kind = "null" THEN [ok |-> TRUE, arr |-> <<>>]
    ELSE [ok |-> FALSE, arr |-> <<>>]

\* UnmarshalRequest with the error of json.Unmarshal dropped: what is not an
\* object leaves r the zero request.
UnmarshalRequestIgnoringErr(it) ==
    IF it.kind = "obj"
    THEN [ok |-> TRUE,
          r |-> [ID |-> it.id, Version |-> it.jsonrpc, Method |-> it.method, Params |-> it.params]]
    ELSE [ok |-> TRUE, r |-> ZeroRequest]

\* json.Unmarshal(jsonString, r) with r *request: an object fills the fields
\* it has (an absent key leaves the zero value; "id": null stores the text
\* null in the RawMessage), null leaves r untouched, anything else fails.
UnmarshalRequest(it) ==
    IF it.kind = "obj"
    THEN [ok |-> TRUE,
          r |-> [ID |-> it.id, Version |-> it.jsonrpc, Method |-> it.method, Params |-> it.params]]
    ELSE IF it.kind = "null" THEN [ok |-> TRUE, r |-> ZeroRequest]
    ELSE [ok |-> FALSE, r |-> ZeroRequest]

\* ------------------------------------------------------------ pure functions

\* validateRequest without the test of the version.
validateRequestMethodOnly(req) ==
    IF req.Method = "" THEN ErrInvalidRequest
    ELSE NilError

validateRequest(req) ==
    IF req.Version # "2.0" THEN ErrInvalidRequest
    ELSE IF req.Method = "" THEN ErrInvalidRequest
    ELSE NilError

\* json.Marshal(r) of a response struct; respStr, _ := drops the error, so a
\* result that cannot be encoded gives nil bytes (<<>>).  id is null for a
\* nil RawMessage; result and error are omitempty on an interface: left out
\* exactly when the interface is nil.
Marshal(r) ==
    IF r.Result = Unencodable THEN <<>>
    ELSE << [id |-> IF r.ID = NilRaw THEN "null" ELSE r.ID,
             jsonrpc |-> r.Version,
             hasResult |-> r.Result # NilRaw,
             result |-> r.Result,
             hasError |-> r.Error # NilError,
             error |-> [code |-> r.Error.code, message |-> r.Error.message]] >>

\* IsNotification with the absent id confused with the id null.
IsNotificationNullId(request) ==
    validateRequest(request) = NilError /\ request.ID = "null"

\* The "if notification request" test of makeResponseJson.
IsNotification(request) ==
    validateRequest(request) = NilError /\ request.ID = NilRaw

\* ResponseError that wraps every error as an internal error.
ResponseErrorAlwaysInternal(error) == NewInternalError(error.message)

\* The error field makeResponseJson stores for a non-nil error.
ResponseError(error) ==
    IF error.kind = "rpc" THEN NewError(error.code, error.message)
    ELSE NewInternalError(error.message)

\* ResponseID of a makeResponseJson that is handed request{}.
ResponseIDOfZeroRequest(request) == ZeroRequest.ID

\* The ID makeResponseJson copies into the response.
ResponseID(request) == request.ID

\* nil bytes are <<>>, a serialized response is a one-element sequence.
makeResponseJson(request, result, error) ==
    IF IsNotification(request) THEN <<>>
    ELSE Marshal([ID |-> ResponseID(request),
                  Version |-> "2.0",
                  Error |-> IF error # NilError THEN ResponseError(error) ELSE NilError,
                  Result |-> result])

\* The registered handler: what it returns is decided by params; "hang" never
\* returns (see HandlerReturn).
run(params) ==
    CASE params = "ok"     -> [result |-> "ok", err |-> NilError]
      [] params = "nil"    -> [result |-> NilRaw, err |-> NilError]
      [] params = "both"   -> [result |-> "partial", err |-> [kind |-> "plain", code |-> 0, message |-> "boom"]]
      [] params = "err"    -> [result |-> NilRaw, err |-> [kind |-> "plain", code |-> 0, message |-> "boom"]]
      [] params = "rpcerr" -> [result |-> NilRaw, err |-> NewError(-32001, "My Custom Error")]
      [] params = "nan"    -> [result |-> Unencodable, err |-> NilError]
      [] OTHER             -> [result |-> NilRaw, err |-> NilError]

Returns(params) == params # "hang"

\* ---------------------------------------------------------------- the state

VARIABLES
    handlers,    \* server.handlers: the method names that have a handler
    timeout,     \* server.timeout
    phase,       \* "config", then "serving" (inside ServeRequest), then "returned"
    payload,     \* jsonString, the argument of ServeRequest
    batch,       \* TRUE when ServeRequest took the serveBatchRequest branch
    task,        \* one serveSingleRequest call per element (one for a single call)
    rsps,        \* the rsps slice of serveBatchRequest
    ret,         \* what ServeRequest returned
    outOfOrder   \* some element finished before an element of a smaller index

vars == <<handlers, timeout, phase, payload, batch, task, rsps, ret, outOfOrder>>

\* The values SetDefaultTimeout is called with.
Durations == {-1, 0, 5}

\* The names DefineMethod is called with ("missing" is never registered).
DefinedMethods == {"echo"}

NoPayload == [isArray |-> FALSE, item |-> NoFields("garbage"), elems |-> <<>>]

NotReturned == [kind |-> "none", items |-> <<>>]

\* One serveSingleRequest call and the goroutines of its handleAsync:
\*   pc    "spawned" before it runs, "handling" inside a synchronous handler,
\*         "recv" blocked in <-done, "recvd" after it, "loaded" after reading
\*         resp for the return statement, "done" when it has returned;
\*   hpc   the handler goroutine: "none", "ready" (go statement executed),
\*         "run" (inside h), "send" (blocked in done <- 1), "exit";
\*   tpc   the timer goroutine: "none", "sleep", "send", "exit";
\*   resp, err   the named results the two goroutines and the caller share;
\*   sendq the goroutines blocked in done <- 1, in arrival order;
\*   from  the goroutine whose send <-done received;
\*   got   the value of resp the return statement read;
\*   calls how many times the handler was invoked.
NewTask(raw) ==
    [raw |-> raw, pc |-> "spawned", hpc |-> "none", tpc |-> "none",
     resp |-> NilRaw, err |-> NilError, sendq |-> <<>>, from |-> "none",
     got |-> NilRaw, calls |-> 0]

Init ==
    /\ handlers = {}
    /\ timeout = 0
    /\ phase = "config"
    /\ payload = NoPayload
    /\ batch = FALSE
    /\ task = <<>>
    /\ rsps = <<>>
    /\ ret = NotReturned
    /\ outOfOrder = FALSE

Tasks == DOMAIN task

Request(i) == UnmarshalRequest(task[i].raw).r

\* The counter of the WaitGroup: the goroutines that have not called wg.Done.
WgCount == Cardinality({i \in Tasks : task[i].pc # "done"})

\* RspIndex of a coordinator that appends the responses as they arrive.
RspIndexByCompletion(i, nDone) == nDone + 1

\* The slot of rsps the goroutine of element i stores its response in, when
\* nDone goroutines have finished before it.
RspIndex(i, nDone) == i

\* EmptyBatch of a ServeRequest without the test for an empty array.
EmptyBatchNever(arr) == FALSE

\* The len(arr) == 0 test of ServeRequest.
EmptyBatch(arr) == Len(arr) = 0

\* HasDeadline of a serveSingleRequest that never attaches a deadline.
HasDeadlineNever(t) == FALSE

\* HasDeadline of a serveSingleRequest that takes every timeout but 0.
HasDeadlineNonZero(t) == t # 0

\* The s.timeout > 0 test of serveSingleRequest: the context gets a deadline,
\* and ctx.Deadline() in handleAsync reports it.
HasDeadline(t) == t > 0

\* What ServeRequest returns for the bytes of one response.
Single(bytes) == [kind |-> IF bytes = <<>> THEN "nil" ELSE "object", items |-> bytes]

\* The "construct response" loop of serveBatchRequest.
RECURSIVE NonNil(_)
NonNil(s) ==
    IF s = <<>> THEN <<>>
    ELSE IF Head(s) # <<>> THEN <<Head(s)[1]>> \o NonNil(Tail(s))
    ELSE NonNil(Tail(s))

BatchResult(rs) ==
    LET result == NonNil(rs)
    IN IF Len(result) = 0 THEN [kind |-> "nil", items |-> <<>>]
       ELSE [kind |-> "array", items |-> result]

\* ------------------------------------------------------------------ actions

SetDefaultTimeout(d) ==
    /\ phase = "config"
    /\ timeout' = d
    /\ UNCHANGED <<handlers, phase, payload, batch, task, rsps, ret, outOfOrder>>

DefineMethod(m) ==
    /\ phase = "config"
    /\ handlers' = handlers \cup {m}
    /\ UNCHANGED <<timeout, phase, payload, batch, task, rsps, ret, outOfOrder>>

\* ServeRequest up to the point where the element goroutines are started (or,
\* for a single call, where serveSingleRequest is entered).
ServeRequest(p) ==
    /\ phase = "config"
    /\ payload' = p
    /\ LET a == UnmarshalArray(p)
       IN IF a.ok /\ EmptyBatch(a.arr)
          THEN /\ ret' = Single(makeResponseJson(ZeroRequest, NilRaw, ErrInvalidRequest))
               /\ phase' = "returned"
               /\ UNCHANGED <<batch, task, rsps>>
          ELSE IF a.ok
          THEN /\ batch' = TRUE
               /\ task' = [i \in 1..Len(a.arr) |-> NewTask(a.arr[i])]
               /\ rsps' = [i \in 1..Len(a.arr) |-> <<>>]
               /\ phase' = "serving"
               /\ UNCHANGED ret
          ELSE /\ batch' = FALSE
               /\ task' = <<NewTask(p.item)>>
               /\ rsps' = <<>>
               /\ phase' = "serving"
               /\ UNCHANGED ret
    /\ UNCHANGED <<handlers, timeout, outOfOrder>>

\* serveSingleRequest of element i returns bytes: as a batch element its
\* goroutine stores them in rsps and calls wg.Done, as a single call they are
\* what ServeRequest returns.
Complete(i, bytes) ==
    /\ task' = [task EXCEPT ![i].pc = "done"]
    /\ IF batch
       THEN /\ rsps' = [rsps EXCEPT ![RspIndex(i, Len(task) - WgCount)] = bytes]
            /\ outOfOrder' = (outOfOrder \/ \E j \in Tasks : j < i /\ task[j].pc # "done")
            /\ UNCHANGED <<ret, phase>>
       ELSE /\ ret' = Single(bytes)
            /\ phase' = "returned"
            /\ UNCHANGED <<rsps, outOfOrder>>

\* serveSingleRequest from its entry to its first return or to the handler
\* call: decode, validate, look the method up, attach the deadline, and either
\* call the handler (no deadline) or start the two goroutines of handleAsync.
ServeSingle(i) ==
    /\ task[i].pc = "spawned"
    /\ LET d == UnmarshalRequest(task[i].raw)
       IN IF ~d.ok
          THEN Complete(i, makeResponseJson(ZeroRequest, NilRaw, ErrParseError))
          ELSE IF validateRequest(d.r) # NilError
          THEN Complete(i, makeResponseJson(d.r, NilRaw, validateRequest(d.r)))
          ELSE IF d.r.Method \notin handlers
          THEN Complete(i, makeResponseJson(d.r, NilRaw, ErrMethodNotFound))
          ELSE IF HasDeadline(timeout)
          THEN /\ task' = [task EXCEPT ![i].pc = "recv", ![i].hpc = "ready", ![i].tpc = "sleep"]
               /\ UNCHANGED <<rsps, ret, phase, outOfOrder>>
          ELSE /\ task' = [task EXCEPT ![i].pc = "handling", ![i].calls = @ + 1]
               /\ UNCHANGED <<rsps, ret, phase, outOfOrder>>
    /\ UNCHANGED <<handlers, timeout, payload, batch>>

\* The handler goroutine of handleAsync starts to run: it calls h.
HandlerStart(i) ==
    /\ task[i].hpc = "ready"
    /\ task' = [task EXCEPT ![i].hpc = "run", ![i].calls = @ + 1]
    /\ UNCHANGED <<handlers, timeout, phase, payload, batch, rsps, ret, outOfOrder>>

\* The handler returns.  Without a deadline handleAsync returns its pair and
\* serveSingleRequest builds the response; with one, its goroutine stores the
\* pair in resp, err and blocks in done <- 1.
HandlerReturn(i) ==
    /\ Returns(Request(i).Params)
    /\ LET out == run(Request(i).Params)
       IN \/ /\ task[i].pc = "handling"
             /\ Complete(i, makeResponseJson(Request(i), out.result, out.err))
          \/ /\ task[i].hpc = "run"
             /\ task' = [task EXCEPT ![i].hpc = "send", ![i].resp = out.result,
                                     ![i].err = out.err, ![i].sendq = Append(@, "handler")]
             /\ UNCHANGED <<rsps, ret, phase, outOfOrder>>
    /\ UNCHANGED <<handlers, timeout, payload, batch>>

\* The deadline passes: the timer goroutine stores the deadline error in err
\* and blocks in done <- 1.
TimerFire(i) ==
    /\ task[i].tpc = "sleep"
    /\ task' = [task EXCEPT ![i].tpc = "send", ![i].err = DeadlineExceeded,
                            ![i].sendq = Append(@, "timer")]
    /\ UNCHANGED <<handlers, timeout, phase, payload, batch, rsps, ret, outOfOrder>>

\* <-done: the unbuffered channel hands over the send of the goroutine that
\* has waited longest; that goroutine ends, the other stays blocked.
Receive(i) ==
    /\ task[i].pc = "recv"
    /\ task[i].sendq # <<>>
    /\ LET who == Head(task[i].sendq)
       IN task' = [task EXCEPT ![i].pc = "recvd", ![i].from = who,
                               ![i].sendq = Tail(@),
                               ![i].hpc = IF who = "handler" THEN "exit" ELSE @,
                               ![i].tpc = IF who = "timer" THEN "exit" ELSE @]
    /\ UNCHANGED <<handlers, timeout, phase, payload, batch, rsps, ret, outOfOrder>>

\* return resp, err reads resp ...
LoadResp(i) ==
    /\ task[i].pc = "recvd"
    /\ task' = [task EXCEPT ![i].pc = "loaded", ![i].got = task[i].resp]
    /\ UNCHANGED <<handlers, timeout, phase, payload, batch, rsps, ret, outOfOrder>>

\* ... and then err; handleAsync returns and serveSingleRequest builds the
\* response from the pair.
HandleAsyncReturn(i) ==
    /\ task[i].pc = "loaded"
    /\ Complete(i, makeResponseJson(Request(i), task[i].got, task[i].err))
    /\ UNCHANGED <<handlers, timeout, payload, batch>>

\* serveBatchRequest after wg.Wait: collect the responses and return.
BatchReturn ==
    /\ phase = "serving"
    /\ batch
    /\ WgCount = 0
    /\ ret' = BatchResult(rsps)
    /\ phase' = "returned"
    /\ UNCHANGED <<handlers, timeout, payload, batch, task, rsps, outOfOrder>>

Next ==
    \/ \E d \in Durations : SetDefaultTimeout(d)
    \/ \E m \in DefinedMethods : DefineMethod(m)
    \/ \E p \in Payloads : ServeRequest(p)
    \/ \E i \in Tasks : ServeSingle(i)
    \/ \E i \in Tasks : HandlerStart(i)
    \/ \E i \in Tasks : HandlerReturn(i)
    \/ \E i \in Tasks : TimerFire(i)
    \/ \E i \in Tasks : Receive(i)
    \/ \E i \in Tasks : LoadResp(i)
    \/ \E i \in Tasks : HandleAsyncReturn(i)
    \/ BatchReturn

Spec == Init /\ [][Next]_vars

\* The scheduling the Go runtime gives: a goroutine that can run does run, and
\* time.Sleep returns.  Nothing makes a handler return.
Fairness ==
    /\ WF_vars(\E i \in Tasks : ServeSingle(i))
    /\ WF_vars(\E i \in Tasks : HandlerStart(i))
    /\ WF_vars(\E i \in Tasks : TimerFire(i))
    /\ WF_vars(\E i \in Tasks : Receive(i))
    /\ WF_vars(\E i \in Tasks : LoadResp(i))
    /\ WF_vars(\E i \in Tasks : HandleAsyncReturn(i))
    /\ WF_vars(BatchReturn)

FairSpec == Spec /\ Fairness

\* ------------------------------------------------------------------- claims

\* The words of the claims, stated on the payload.
Returned == phase = "returned"

SinglePayload == phase # "config" /\ ~payload.isArray

\* A valid Call: an object with jsonrpc "2.0" and a non-empty method.
ValidCall(it) == it.kind = "obj" /\ it.jsonrpc = "2.0" /\ it.method # ""

HasId(it) == it.id # NilRaw

\* The one response ServeRequest returned as a single object.
TheResponse == ret.items[1]

IsErrorResponse(rsp, code, id) ==
    /\ rsp.jsonrpc = "2.0"
    /\ rsp.id = id
    /\ rsp.hasError
    /\ rsp.error.code = code
    /\ ~rsp.hasResult

\* C1: for a single valid Call with an id, ServeRequest returns exactly one
\* Response, whose id is the Call's id and whose version is "2.0", whatever
\* the handler does.
C1_OneResponseWithCallId ==
    (Returned /\ SinglePayload /\ ValidCall(payload.item) /\ HasId(payload.item))
        => /\ ret.kind = "object"
           /\ Len(ret.items) = 1
           /\ TheResponse.id = payload.item.id
           /\ TheResponse.jsonrpc = "2.0"

\* C2: for a single valid Call without an id (a notification), ServeRequest
\* returns nil, whether the method is registered or not and whatever the
\* handler does.
C2_NotificationAbsent ==
    (Returned /\ SinglePayload /\ ValidCall(payload.item) /\ ~HasId(payload.item))
        => ret.kind = "nil"

\* A notification whose handler was invoked and failed has returned nil.
C2_Witness ==
    /\ Returned /\ SinglePayload
    /\ ValidCall(payload.item) /\ ~HasId(payload.item)
    /\ payload.item.params = "err"
    /\ task[1].calls = 1
    /\ ret.kind = "nil"

\* C3: a Call that decodes but is invalid (wrong version or empty method) gets
\* a Response with error code -32600 and id null, even if it carried an id.
C3_InvalidRequestIdNull ==
    (Returned /\ SinglePayload /\ payload.item.kind = "obj" /\ ~ValidCall(payload.item))
        => /\ ret.kind = "object"
           /\ Len(ret.items) = 1
           /\ IsErrorResponse(TheResponse, -32600, "null")

\* C4: every Response ServeRequest emits, alone or in a batch array, has
\* exactly one of result and error.
C4_ExactlyOneOfResultAndError ==
    \A k \in 1..Len(ret.items) : ret.items[k].hasResult # ret.items[k].hasError

\* C5: with a positive timeout, a call with an id whose handler has not
\* returned when the deadline fires (the timer is the first to reach done <- 1,
\* so <-done receives from it) gets the deadline error with the call's id:
\* code -32000, message "context deadline exceeded", no result.
C5_DeadlineExceeded ==
    (Returned /\ SinglePayload /\ HasId(payload.item) /\ task[1].from = "timer")
        => /\ ret.kind = "object"
           /\ Len(ret.items) = 1
           /\ IsErrorResponse(TheResponse, -32000, payload.item.id)
           /\ TheResponse.error.message = "context deadline exceeded"

\* C6: with a positive timeout, a call with an id whose handler finishes before
\* the deadline fires (the handler is the first to reach done <- 1) gets the
\* Response of the handler's own pair, without the deadline error.
C6_HandlerResult ==
    (Returned /\ SinglePayload /\ HasId(payload.item) /\ task[1].from = "handler")
        => /\ ret = Single(makeResponseJson(Request(1), run(Request(1).Params).result,
                                            run(Request(1).Params).err))
           /\ \A k \in 1..Len(ret.items) :
                  ~(ret.items[k].hasError
                    /\ ret.items[k].error.message = "context deadline exceeded")

\* The id a batch element carries; null when it has none or does not decode.
ElemId(e) == IF e.kind = "obj" /\ e.id # NilRaw THEN e.id ELSE "null"

\* rsp can be the response to element e: it has e's id, or the null id of an
\* error response.
RespondsTo(rsp, e) == rsp.id \in {ElemId(e), "null"}

\* out is matched, entry by entry, by elements of es of increasing index.
RECURSIVE InOrderOf(_, _)
InOrderOf(out, es) ==
    IF out = <<>> THEN TRUE
    ELSE IF es = <<>> THEN FALSE
    ELSE \/ RespondsTo(Head(out), Head(es)) /\ InOrderOf(Tail(out), Tail(es))
         \/ InOrderOf(out, Tail(es))

\* C7: the output array of a batch lists the responses in the order of their
\* elements in the input array, whatever the order in which they finished.
C7_BatchOrder ==
    (Returned /\ batch /\ ret.kind = "array") => InOrderOf(ret.items, payload.elems)

\* A batch returned two or more responses after an element had finished
\* before one of a smaller index.
C7_Witness ==
    /\ Returned /\ batch /\ ret.kind = "array"
    /\ Len(ret.items) >= 2
    /\ outOfOrder

IsNotificationElem(e) == ValidCall(e) /\ ~HasId(e)

IsIdCallElem(e) == ValidCall(e) /\ HasId(e)

Elems == {payload.elems[k] : k \in 1..Len(payload.elems)}

\* C8: a non-empty batch of valid notifications only yields nil, never an empty
\* array; a batch that mixes notifications and calls with an id yields an array
\* with one entry per call with an id and none for a notification.
C8_BatchNotifications ==
    (Returned /\ batch /\ \A e \in Elems : ValidCall(e))
        => /\ (\A e \in Elems : IsNotificationElem(e)) => ret.kind = "nil"
           /\ ((\E e \in Elems : IsNotificationElem(e)) /\ (\E e \in Elems : IsIdCallElem(e)))
                  => /\ ret.kind = "array"
                     /\ Len(ret.items) =
                            Cardinality({k \in 1..Len(payload.elems) : IsIdCallElem(payload.elems[k])})

\* C9: a payload that is neither a decodable array nor a decodable Call object
\* gets a single Response with error code -32700 and id null.
C9_ParseError ==
    (Returned /\ SinglePayload /\ payload.item.kind \in {"garbage", "scalar", "badobj"})
        => /\ ret.kind = "object"
           /\ Len(ret.items) = 1
           /\ IsErrorResponse(TheResponse, -32700, "null")

\* ServeRequest has returned for a payload that is not JSON.
C9_Witness ==
    /\ Returned /\ SinglePayload
    /\ payload.item.kind = "garbage"
    /\ ret.kind = "object"

\* C10: an empty batch array gets a single error Response object, not an
\* array, with code -32600 and id null, and no handler is invoked.
C10_EmptyBatch ==
    (Returned /\ payload.isArray /\ payload.elems = <<>>)
        => /\ ret.kind = "object"
           /\ Len(ret.items) = 1
           /\ IsErrorResponse(TheResponse, -32600, "null")
           /\ \A i \in Tasks : task[i].calls = 0

\* ServeRequest has returned for the payload [].
C10_Witness ==
    /\ Returned /\ payload.isArray /\ payload.elems = <<>>
    /\ ret.kind = "object"

\* The payload that is the batch element e submitted alone.
AsPayload(e) ==
    IF e.kind = "array" THEN [isArray |-> TRUE, item |-> NoFields("scalar"), elems |-> <<>>]
    ELSE [isArray |-> FALSE, item |-> e, elems |-> <<>>]

\* The pairs handleAsync can return for params under the configured timeout:
\* the handler's own pair without a deadline; with one, each of resp and err
\* as the handler or the timer left it.
AlonePairs(params) ==
    IF timeout > 0
    THEN {[result |-> res, err |-> er] :
             res \in {NilRaw} \cup (IF Returns(params) THEN {run(params).result} ELSE {}),
             er \in {DeadlineExceeded} \cup (IF Returns(params) THEN {run(params).err} ELSE {})}
    ELSE IF Returns(params) THEN {run(params)} ELSE {}

\* What ServeRequest can return for payload p alone, on the configured server.
AloneReturns(p) ==
    IF p.isArray \/ p.item.kind = "null"
    THEN {Single(makeResponseJson(ZeroRequest, NilRaw, ErrInvalidRequest))}
    ELSE LET d == UnmarshalRequest(p.item)
         IN IF ~d.ok THEN {Single(makeResponseJson(ZeroRequest, NilRaw, ErrParseError))}
            ELSE IF validateRequest(d.r) # NilError
            THEN {Single(makeResponseJson(d.r, NilRaw, ErrInvalidRequest))}
            ELSE IF d.r.Method \notin handlers
            THEN {Single(makeResponseJson(d.r, NilRaw, ErrMethodNotFound))}
            ELSE {Single(makeResponseJson(d.r, o.result, o.err)) : o \in AlonePairs(d.r.Params)}

\* AloneReturns describes the single calls of this server.
AloneReturnsCoverSingles ==
    (Returned /\ ~batch) => ret \in AloneReturns(payload)

\* C11 as claimed: the response of every finished batch element is one that
\* ServeRequest can produce for that element submitted alone.
C11_SameAsAlone ==
    \A i \in Tasks :
        (batch /\ task[i].pc = "done") => Single(rsps[i]) \in AloneReturns(AsPayload(payload.elems[i]))

\* C11, amended: the same for every element that is not itself an array.
C11_SameAsAloneUnlessArray ==
    \A i \in Tasks :
        (batch /\ task[i].pc = "done" /\ payload.elems[i].kind # "array")
            => Single(rsps[i]) \in AloneReturns(AsPayload(payload.elems[i]))

\* A batch has returned in which one element got a parse error or ran into its
\* deadline and a sibling with an id got the result of its handler.
C11_Witness ==
    /\ Returned /\ batch /\ Len(task) = 2
    /\ \E i, j \in Tasks :
           /\ i # j
           /\ \/ payload.elems[i].kind = "scalar"
              \/ (task[i].from = "timer" /\ payload.elems[i].params = "hang")
           /\ payload.elems[j].params = "ok" /\ ValidCall(payload.elems[j])
           /\ rsps[j] # <<>>
           /\ rsps[j][1].hasResult /\ rsps[j][1].result = "ok" /\ ~rsps[j][1].hasError

\* The bytes serveSingleRequest returned for element i (for the single call).
TaskBytes(i) == IF batch THEN rsps[i] ELSE ret.items

\* Element i is a valid call of a method that has a handler.
Dispatched(i) == ValidCall(task[i].raw) /\ task[i].raw.method \in handlers

\* C12: a valid Call with an id whose method is not in the dispatch table gets
\* a Response with error -32601 "Method not found" and the Call's own id, and
\* no handler is invoked.
C12_MethodNotFound ==
    \A i \in Tasks :
        (ValidCall(task[i].raw) /\ task[i].raw.method \notin handlers)
            => /\ task[i].calls = 0
               /\ (task[i].pc = "done" /\ HasId(task[i].raw))
                      => /\ Len(TaskBytes(i)) = 1
                         /\ IsErrorResponse(TaskBytes(i)[1], -32601, task[i].raw.id)
                         /\ TaskBytes(i)[1].error.message = "Method not found"

\* A call of "missing" with id 1 has returned on a server that has a handler
\* for "echo".
C12_Witness ==
    /\ Returned /\ SinglePayload
    /\ handlers = {"echo"}
    /\ ValidCall(payload.item) /\ payload.item.method = "missing" /\ payload.item.id = "1"
    /\ ret.kind = "object"

\* The error of a Response for the handler error e, in the words of the claim.
ExpectedError(e) ==
    IF e.kind = "rpc" THEN [code |-> e.code, message |-> e.message]
    ELSE [code |-> -32000, message |-> e.message]

\* The handler's error is the error handleAsync returned: there was no
\* deadline, or the timer had not yet fired when the call returned.
HandlerErrorReturned(i) ==
    /\ Dispatched(i) /\ HasId(task[i].raw)
    /\ task[i].pc = "done"
    /\ Returns(task[i].raw.params)
    /\ run(task[i].raw.params).err # NilError
    /\ task[i].tpc \in {"none", "sleep"}

C14_SingleWinner ==
    \A i \in Tasks :
        (Dispatched(i) /\ HasId(task[i].raw) /\ task[i].pc = "done" /\ task[i].from # "none")
            => \/ TaskBytes(i) = makeResponseJson(Request(i), NilRaw, DeadlineExceeded)
               \/ /\ Returns(task[i].raw.params)
                  /\ TaskBytes(i) = makeResponseJson(Request(i), run(task[i].raw.params).result,
                                                     run(task[i].raw.params).err)

\* The handler of element i is never invoked twice, and only for a valid call
\* of a registered method that serveSingleRequest has decoded, validated and
\* looked up.
C15_Safety ==
    \A i \in Tasks :
        /\ task[i].calls <= 1
        /\ task[i].calls = 1 => (Dispatched(i) /\ task[i].pc # "spawned")

\* C15: for every call, single or batch element, the handler is invoked exactly
\* once if and only if the payload decodes, is valid and names a registered
\* method, notifications included; never otherwise, and only after decode,
\* validation and lookup.
C15_HandlerInvokedOnce ==
    /\ []C15_Safety
    /\ \A i \in 1..MaxBatch :
           (i \in Tasks /\ Dispatched(i)) ~> (i \in Tasks /\ task[i].calls = 1)

\* A notification of a registered method has returned nil under a deadline
\* and its handler has been invoked once.
C15_Witness ==
    /\ Returned /\ SinglePayload
    /\ ValidCall(payload.item) /\ ~HasId(payload.item)
    /\ Dispatched(1)
    /\ timeout > 0
    /\ task[1].calls = 1
    /\ ret.kind = "nil"

\* C17: with a positive timeout every ServeRequest call returns, single or
\* batch, even if handlers never return.
C17_Returns == (phase = "serving" /\ timeout > 0) ~> Returned

\* A batch has returned although the handler of one of its elements was
\* invoked and never returns.
C17_Witness ==
    /\ Returned /\ batch /\ timeout > 0
    /\ \E i \in Tasks :
           /\ Dispatched(i)
           /\ ~Returns(task[i].raw.params)
           /\ task[i].calls = 1

\* C18: in a timed call, once the handler has returned and the deadline has
\* passed, the handler goroutine and the timer goroutine both terminate.
C18_LoserTerminates ==
    \A i \in 1..MaxBatch :
        (i \in Tasks /\ task[i].hpc \in {"send", "exit"} /\ task[i].tpc \in {"send", "exit"})
            ~> (i \in Tasks /\ task[i].hpc = "exit" /\ task[i].tpc = "exit")

\* C19: when the timeout is not positive no timer or handler goroutine is
\* started, the handler runs in the calling goroutine, and the Response is
\* built from the pair the handler returned.
C19_Synchronous ==
    timeout <= 0 =>
        \A i \in Tasks :
            /\ task[i].hpc = "none" /\ task[i].tpc = "none"
            /\ task[i].sendq = <<>> /\ task[i].from = "none"
            /\ task[i].calls = 1 => task[i].pc \in {"handling", "done"}
            /\ (Dispatched(i) /\ task[i].pc = "done")
                   => TaskBytes(i) = makeResponseJson(Request(i), run(task[i].raw.params).result,
                                                      run(task[i].raw.params).err)

\* With a negative timeout a call whose handler returned a result together
\* with an error has got both in its Response.
C19_Witness ==
    /\ Returned /\ SinglePayload
    /\ timeout < 0
    /\ ValidCall(payload.item) /\ HasId(payload.item) /\ payload.item.params = "both"
    /\ Dispatched(1)
    /\ task[1].calls = 1
    /\ ret.kind = "object"
    /\ TheResponse.hasResult /\ TheResponse.hasError

\* C16: ServeRequest returns nil only for a valid notification or for a
\* non-empty batch of valid notifications; a call or element that fails
\* decoding or validation always gets a Response.
C16_AbsentOnlyForNotifications ==
    (Returned /\ ret.kind = "nil")
        => \/ ~payload.isArray /\ ValidCall(payload.item) /\ ~HasId(payload.item)
           \/ /\ payload.isArray /\ Len(payload.elems) > 0
              /\ \A e \in Elems : IsNotificationElem(e)

\* C20: a valid Call whose id is the literal null is not a notification: it
\* is executed and gets a Response with id null.
C20_NullIdAnswered ==
    (Returned /\ SinglePayload /\ ValidCall(payload.item) /\ payload.item.id = "null")
        => /\ ret.kind = "object"
           /\ Len(ret.items) = 1
           /\ TheResponse.id = "null"
           /\ (Dispatched(1) /\ ~HasDeadline(timeout)) => task[1].calls = 1

====
